---- MODULE Spec2Model ----
(***************************************************************************)
(* Model of the TTFT relay worker (src/ttft/main.ts): the fetch handler    *)
(* and the background pump that decodes the upstream SSE stream line by    *)
(* line and writes token fragments and timing annotations downstream.      *)
(*                                                                         *)
(* The upstream body is a sequence of bytes, text a sequence of characters, *)
(* both written as short strings; an ASCII character is its own byte and   *)
(* U+00E9 is the two bytes C3 A9.  The event prefix "data:" is spelled out *)
(* character by character; a JSON payload is spelled "{" c "}" (an object  *)
(* whose choices[0].delta.content is the text c, possibly empty); the      *)
(* sentinel is "[" "D" "]".  Anything else after the prefix does not       *)
(* parse.                                                                  *)
(***************************************************************************)
EXTENDS Integers, Sequences, FiniteSets, TLC

VARIABLES
    hpc,                \* position of the fetch handler
    reqPath,            \* url.pathname of the inbound request
    includeMetrics,     \* url.searchParams.get("metrics") === "true"
    ttftOnly,           \* url.searchParams.get("ttft") === "true"
    resp,               \* the Response the handler returned
    upstreamCalls,      \* number of fetch(env.LLM_ENDPOINT) calls issued
    upstreamStatus,     \* apiResponse.status
    now,                \* the last value Date.now() returned
    clockBack,          \* Date.now() has returned less than an earlier sample
    startTime,
    ttft,
    ttftReported,
    firstTokenReceived,
    upstream,           \* the bytes the upstream body carries
    rest,               \* the part of it reader.read() has not delivered yet
    held,               \* bytes the TextDecoder holds back for the next chunk
    buffer,
    pending,            \* lines the running for-loop has still to visit
    ppc,                \* position of the background pump
    wstate,             \* state of the TransformStream's writable side
    out,                \* chunks the writer accepted, in order
    cancelled,          \* reader.cancel() has been called
    closes,             \* number of writer.close() calls issued
    writeFailed,        \* history: a writer.write() call has rejected
    thrown,             \* an exception is propagating through finally
    processed,          \* history: the lines the two for-loops visited
    midCut,             \* history: some chunk ended in the middle of a line
    readerDone,         \* history: reader.read() has reported done
    readFailed,         \* history: reader.read() has rejected
    textFailed,         \* history: apiResponse.text() has rejected
    \* the probe worker (src/probe/main.ts)
    opc,                \* position of the probe worker's fetch handler
    probes,             \* what getProbes returned: the active probes
    targetCount,
    regions,            \* regions[region].probes: the ids of each bucket
    selectedProbes,
    regionIdx,          \* the entry of distribution the first pass is at
    selectedProbeIds,   \* what selectProbes returned
    testRequests,       \* the probe ids runSingleTest was called with, in order
    resultsWithRegion,  \* the settled test results, each with its region
    stats               \* the statistics of the response

vars == <<hpc, reqPath, includeMetrics, ttftOnly, resp, upstreamCalls,
          upstreamStatus, now, clockBack, startTime, ttft, ttftReported,
          firstTokenReceived, upstream, rest, buffer, held, pending, ppc, wstate,
          out, cancelled, closes, writeFailed, thrown, processed, midCut,
          readerDone, readFailed, textFailed, opc, probes, targetCount, regions,
          selectedProbes, regionIdx, selectedProbeIds, testRequests,
          resultsWithRegion, stats>>

\* the results and their statistics
statsVars == <<resultsWithRegion, stats>>

\* the state of the probe worker
probeVars == <<opc, probes, targetCount, regions, selectedProbes, regionIdx,
               selectedProbeIds, testRequests, statsVars>>

(***************************************************************************)
(* Bounds                                                                  *)
(***************************************************************************)
MaxLines == 3       \* lines in the upstream body
MaxLiveBreaks == 1  \* line breaks in the upstream body, for termination
MaxClock == 2       \* Date.now() ranges over 0..MaxClock
MaxProbes == 3      \* active probes getProbes returns
MaxTarget == 4      \* targetCount ranges over 0..MaxTarget and the default
MaxResults == 3     \* test results in a list of arbitrary results
MaxTime == 2        \* response_time ranges over 0..MaxTime in such a list
MaxSample == 101    \* test results in a list of distinct response times
StartClock == 1     \* what Date.now() returns when the operation starts

(***************************************************************************)
(* Text                                                                    *)
(***************************************************************************)
NL == "\n"
Lead == "C3"                \* the two bytes of U+00E9 in UTF-8
Cont == "A9"
EAcute == "U+00E9"
Replacement == "U+FFFD"     \* what the decoder yields for a broken sequence
Data == <<"d", "a", "t", "a", ":">>
Done == <<"[", "D", "]">>
Whitespace == {" ", "\r", NL}
Tokens == {"A", EAcute}

\* lines of the upstream body, as bytes
FragA == Data \o <<" ", "{", "A", "}", "\r">>
FragB == Data \o <<"{", Lead, Cont, "}">>
EmptyDelta == Data \o <<"{", "}">>
Malformed == Data \o <<"{", "A">>
Sentinel == Data \o <<" ">> \o Done
Blank == <<>>
Comment == <<":", "{", "A", "}">>

LineVocabulary == {FragA, FragB, EmptyDelta, Malformed, Sentinel, Blank, Comment}

RECURSIVE Join(_)
Join(ls) == IF Len(ls) = 0 THEN <<>>
            ELSE IF Len(ls) = 1 THEN ls[1]
            ELSE ls[1] \o <<NL>> \o Join(Tail(ls))

\* Bodies of up to MaxLines lines; the last line may lack its line break.
Bodies ==
    {<<>>} \cup
    UNION {{Join(ls), Join(ls) \o <<NL>>} :
              ls \in UNION {[1..n -> LineVocabulary] : n \in 1..MaxLines}}

\* textDecoder.decode(value, { stream: true }) on the bytes held back followed
\* by the new chunk: the text, and the incomplete sequence held back
RECURSIVE TextDecode(_)
TextDecode(bytes) ==
    IF bytes = <<>> THEN [text |-> <<>>, held |-> <<>>]
    ELSE IF bytes = <<Lead>> THEN [text |-> <<>>, held |-> bytes]
    ELSE IF bytes[1] = Lead /\ bytes[2] = Cont
    THEN LET r == TextDecode(SubSeq(bytes, 3, Len(bytes)))
         IN  [text |-> <<EAcute>> \o r.text, held |-> r.held]
    ELSE LET r == TextDecode(Tail(bytes))
         IN  [text |-> <<IF bytes[1] \in {Lead, Cont}
                         THEN Replacement ELSE bytes[1]>> \o r.text,
              held |-> r.held]

\* textEncoder.encode(text)
RECURSIVE TextEncode(_)
TextEncode(text) ==
    IF text = <<>> THEN <<>>
    ELSE (IF text[1] = EAcute THEN <<Lead, Cont>>
          ELSE IF text[1] = Replacement THEN <<"EF", "BF", "BD">>
          ELSE <<text[1]>>) \o TextEncode(Tail(text))

\* String.prototype.split("\n")
RECURSIVE Split(_)
Split(s) ==
    IF \A i \in 1..Len(s) : s[i] # NL THEN <<s>>
    ELSE LET i == CHOOSE k \in 1..Len(s) :
                     s[k] = NL /\ \A j \in 1..(k - 1) : s[j] # NL
         IN  <<SubSeq(s, 1, i - 1)>> \o Split(SubSeq(s, i + 1, Len(s)))

CompleteKeepsLast(lines) == lines

\* lines.pop() on a copy: the lines before the last one
Complete(lines) == SubSeq(lines, 1, Len(lines) - 1)

CarryDropped(lines) == <<>>

\* buffer = lines.pop() || ""
Carry(lines) == lines[Len(lines)]

\* line.startsWith("data:")
StartsWithData(line) ==
    Len(line) >= Len(Data) /\ SubSeq(line, 1, Len(Data)) = Data

\* String.prototype.trim()
RECURSIVE Trim(_)
Trim(s) ==
    IF Len(s) = 0 THEN s
    ELSE IF s[1] \in Whitespace THEN Trim(Tail(s))
    ELSE IF s[Len(s)] \in Whitespace THEN Trim(SubSeq(s, 1, Len(s) - 1))
    ELSE s

\* line.slice(5).trim()
Payload(line) == Trim(SubSeq(line, Len(Data) + 1, Len(line)))

\* JSON.parse(data) succeeds
Parses(data) ==
    /\ Len(data) >= 2
    /\ data[1] = "{"
    /\ data[Len(data)] = "}"
    /\ \A i \in 2..(Len(data) - 1) : data[i] \in Tokens \cup {Replacement}

\* parsed.choices?.[0]?.delta?.content || ""
Content(data) == SubSeq(data, 2, Len(data) - 1)

(***************************************************************************)
(* Chunks written downstream                                               *)
(***************************************************************************)
\* `TTFT: ${ttft}ms`
Report(ms) == [kind |-> "report", ms |-> ms, bytes |-> <<>>]
\* `[TTFT: ${ttft}ms]\n\n`
TtftNote(ms) == [kind |-> "ttft", ms |-> ms, bytes |-> <<>>]
\* textEncoder.encode(content)
Fragment(c) == [kind |-> "fragment", ms |-> 0, bytes |-> TextEncode(c)]
\* `\n\n[Total Response Time: ${totalTime}ms]`
TotalNote(ms) == [kind |-> "total", ms |-> ms, bytes |-> <<>>]
\* `\n\n[Error: ${error.message}]`
ErrorNote == [kind |-> "error", ms |-> 0, bytes |-> <<>>]

NoResponse == [status |-> 0, body |-> "none"]


(***************************************************************************)
(* Request adapter                                                         *)
(***************************************************************************)
\* request paths: "/", "/h%20" and "/%"
Paths == {<<"/">>, <<"/", "h", "%", "2", "0">>, <<"/", "%">>}

\* decodeURIComponent: "%20" decodes to a space, a "%" without two hex digits
\* raises URIError
RECURSIVE Decodes(_)
Decodes(s) ==
    IF Len(s) = 0 THEN TRUE
    ELSE IF s[1] # "%" THEN Decodes(Tail(s))
    ELSE Len(s) >= 3 /\ s[2] = "2" /\ s[3] = "0" /\ Decodes(SubSeq(s, 4, Len(s)))

RECURSIVE DecodeURIComponent(_)
DecodeURIComponent(s) ==
    IF Len(s) = 0 THEN <<>>
    ELSE IF s[1] # "%" THEN <<s[1]>> \o DecodeURIComponent(Tail(s))
    ELSE <<" ">> \o DecodeURIComponent(SubSeq(s, 4, Len(s)))

\* url.pathname.slice(1)
PathTail(path) == Tail(path)

PromptNeverMissing(prompt) == FALSE

\* !prompt
PromptMissing(prompt) == prompt = <<>>

Statuses == {200, 204, 304, 404, 503}

\* apiResponse.ok
Ok(status) == status >= 200 /\ status <= 299

\* new Response(body, {status}) with a non-null body throws a TypeError for a
\* null body status
NullBodyStatus(status) == status \in {101, 204, 205, 304}

(***************************************************************************)
(* Probe selection (src/probe/main.ts)                                     *)
(***************************************************************************)
DefaultTargetCount == 30

\* Object.entries(distribution): the regions in insertion order
RegionOrder == <<"EU", "NA", "SA", "APAC", "AF", "OTHER">>

RegionNames == {RegionOrder[i] : i \in 1..Len(RegionOrder)}

Distribution ==
    ("EU" :> 8) @@ ("NA" :> 8) @@ ("SA" :> 3) @@ ("APAC" :> 7) @@ ("AF" :> 2)
        @@ ("OTHER" :> 2)

\* the countries each regular expression of the else-if chain matches
MatchesEU == {"Germany", "Ukraine"}
MatchesNA == {"United States"}
MatchesSA == {"Brazil"}
MatchesAPAC == {"Japan"}
MatchesAF == {"South Africa"}

Region(country) ==
    IF country \in MatchesEU THEN "EU"
    ELSE IF country \in MatchesNA THEN "NA"
    ELSE IF country \in MatchesSA THEN "SA"
    ELSE IF country \in MatchesAPAC THEN "APAC"
    ELSE IF country \in MatchesAF THEN "AF"
    ELSE "OTHER"

Countries == {"Ukraine", "South Africa", "Iceland"}

ProbeIds == 1..MaxProbes

\* lists of active probes with distinct ids
ProbeLists ==
    UNION {{ps \in [1..n -> [id : ProbeIds, country : Countries]] :
               \A i, j \in 1..n : i # j => ps[i].id # ps[j].id} :
           n \in 0..MaxProbes}

TargetCounts == (0..MaxTarget) \cup {DefaultTargetCount}

\* probes.map((p) => p.id)
RECURSIVE AllProbeIds(_)
AllProbeIds(ps) ==
    IF ps = <<>> THEN <<>> ELSE <<Head(ps).id>> \o AllProbeIds(Tail(ps))

\* the ids pushed to regions[region].probes, in the order of the list
RECURSIVE Bucket(_, _)
Bucket(ps, region) ==
    IF ps = <<>> THEN <<>>
    ELSE (IF Region(Head(ps).country) = region THEN <<Head(ps).id>> ELSE <<>>)
         \o Bucket(Tail(ps), region)

Categorize(ps) == [region \in RegionNames |-> Bucket(ps, region)]

Members(ids) == {ids[i] : i \in 1..Len(ids)}

\* Array.prototype.sort with the comparator () => 0.5 - Math.random(): some
\* rearrangement of the array
Sorted(ids) ==
    {s \in [1..Len(ids) -> Members(ids)] :
        \A i \in 1..Len(ids) : \E j \in 1..Len(ids) : s[j] = ids[i]}

\* Math.min
Min(a, b) == IF a <= b THEN a ELSE b

\* Array.prototype.slice(0, end) for end >= 0
Slice(ids, end) == SubSeq(ids, 1, Min(end, Len(ids)))

UnselectedAll(all, selected) == all

\* allProbeIds.filter((id) => !selectedProbes.includes(id))
RECURSIVE Unselected(_, _)
Unselected(all, selected) ==
    IF all = <<>> THEN <<>>
    ELSE (IF Head(all) \in Members(selected) THEN <<>> ELSE <<Head(all)>>)
         \o Unselected(Tail(all), selected)

(***************************************************************************)
(* Probe statistics (src/probe/main.ts)                                    *)
(***************************************************************************)
\* response_time?: number, a result without a response time
Undefined == -1

\* result.result.status of a test, "up" or anything else
ResultStatuses == {"up", "down"}

\* the region the else-if chain gives the probe of a result
ResultRegions == {"Europe", "Unknown"}

Results ==
    [status : ResultStatuses, response_time : {Undefined} \cup (0..MaxTime),
     region : ResultRegions]

\* n results whose response times are all different and arrive descending
DistinctResults(n) ==
    [i \in 1..n |->
        [status |-> IF i % 2 = 0 THEN "up" ELSE "down",
         response_time |-> n - i,
         region |-> IF i % 3 = 0 THEN "Unknown" ELSE "Europe"]]

\* the lists of results Promise.all resolves with
ResultLists ==
    UNION {[1..n -> Results] : n \in 0..MaxResults}
        \cup {DistinctResults(n) : n \in (MaxResults + 1)..MaxSample}

\* resultsWithRegion.filter((r) => r.response_time !== undefined)
ValidResults(rs) ==
    LET Valid(r) == r.response_time # Undefined
    IN  SelectSeq(rs, Valid)

\* resultsWithRegion.filter((r) => r.region === region && r.response_time !== undefined)
RegionResults(rs, region) ==
    LET InRegion(r) == r.region = region /\ r.response_time # Undefined
    IN  SelectSeq(rs, InRegion)

\* validResults.map((r) => r.response_time!)
ResponseTimes(rs) == [i \in 1..Len(rs) |-> rs[i].response_time]

\* validResults.filter((r) => r.status === "up").length
Successful(rs) == Cardinality({i \in 1..Len(rs) : rs[i].status = "up"})

\* validResults.filter((r) => r.status !== "up").length
Failed(rs) == Cardinality({i \in 1..Len(rs) : rs[i].status # "up"})

\* two ascending arrays merged into one, the left one first among equals
Merge(left, right) ==
    LET leftPlace ==
            [i \in 1..Len(left) |->
                i + Cardinality({j \in 1..Len(right) : right[j] < left[i]})]
                \o <<>>
        rightPlace ==
            [j \in 1..Len(right) |->
                j + Cardinality({i \in 1..Len(left) : left[i] <= right[j]})]
                \o <<>>
    IN  [k \in 1..(Len(left) + Len(right)) |->
            IF \E i \in 1..Len(left) : leftPlace[i] = k
            THEN left[CHOOSE i \in 1..Len(left) : leftPlace[i] = k]
            ELSE right[CHOOSE j \in 1..Len(right) : rightPlace[j] = k]]
            \o <<>>

SortedAsGiven(times) == times

\* [...responseTimes].sort((a, b) => a - b): a merge sort
RECURSIVE SortAscending(_)
SortAscending(times) ==
    IF Len(times) <= 1 THEN times
    ELSE LET half == Len(times) \div 2
         IN  Merge(SortAscending(SubSeq(times, 1, half)),
                   SortAscending(SubSeq(times, half + 1, Len(times))))

\* responseTimes.reduce((sum, time) => sum + time, 0), added up by halves
RECURSIVE Sum(_)
Sum(times) ==
    IF times = <<>> THEN 0
    ELSE IF Len(times) = 1 THEN times[1]
    ELSE LET half == Len(times) \div 2
         IN  Sum(SubSeq(times, 1, half)) + Sum(SubSeq(times, half + 1, Len(times)))

\* sum / length: the quotient, kept as its two terms
Average(times) == [sum |-> Sum(times), length |-> Len(times)]

\* Math.floor(sorted.length / 2)
HalfIndex(length) == length \div 2

\* Math.floor(sorted.length * 0.9), 0.95 and 0.99: the product of the length
\* and the double nearest to percent / 100, rounded down
FloorIndex(length, percent) == (length * percent) \div 100

\* sorted[index] of a zero-based index
At(sorted, index) == sorted[index + 1]

\* [...new Set(resultsWithRegion.map((r) => r.region))]
RegionsOf(rs) == {rs[i].region : i \in 1..Len(rs)}

\* stats.by_region[region]
RegionStats(rs, region) ==
    LET regionResults == RegionResults(rs, region)
        regionTimes == ResponseTimes(regionResults)
        regionSorted == SortAscending(regionTimes)
    IN  [count |-> Len(regionResults),
         successful |-> Successful(regionResults),
         failed |-> Failed(regionResults),
         average |-> Average(regionTimes),
         median |-> At(regionSorted, HalfIndex(Len(regionSorted))),
         min |-> At(regionSorted, 0),
         max |-> At(regionSorted, Len(regionSorted) - 1)]

\* stats, as long as it has not been computed
NoStats == [computed |-> FALSE]

\* lines 322-380: the statistics of a list of results
Stats(rs) ==
    LET validResults == ValidResults(rs)
        responseTimes == ResponseTimes(validResults)
        sorted == SortAscending(responseTimes)
        length == Len(sorted)
        some == Len(responseTimes) > 0
    IN  [computed |-> TRUE,
         count |-> Len(validResults),
         successful |-> Successful(validResults),
         failed |-> Failed(validResults),
         average |-> IF some THEN Average(responseTimes) ELSE [sum |-> 0, length |-> 1],
         median |-> IF some THEN At(sorted, HalfIndex(length)) ELSE 0,
         min |-> IF some THEN At(sorted, 0) ELSE 0,
         max |-> IF some THEN At(sorted, length - 1) ELSE 0,
         p90 |-> IF some THEN At(sorted, FloorIndex(length, 90)) ELSE 0,
         p95 |-> IF some THEN At(sorted, FloorIndex(length, 95)) ELSE 0,
         p99 |-> IF some THEN At(sorted, FloorIndex(length, 99)) ELSE 0,
         by_region |->
             [region \in {r \in RegionsOf(rs) : RegionResults(rs, r) # <<>>}
                 |-> RegionStats(rs, region)]]

(***************************************************************************)
(* Initial state                                                           *)
(***************************************************************************)
\* both workers before a request, without the test results
IdleState ==
    /\ hpc = "idle"
    /\ reqPath = <<>>
    /\ includeMetrics = FALSE
    /\ ttftOnly = FALSE
    /\ resp = NoResponse
    /\ upstreamCalls = 0
    /\ upstreamStatus = 0
    /\ now = StartClock
    /\ clockBack = FALSE
    /\ startTime = StartClock
    /\ ttft = 0
    /\ ttftReported = FALSE
    /\ firstTokenReceived = FALSE
    /\ upstream = <<>>
    /\ rest = <<>>
    /\ held = <<>>
    /\ buffer = <<>>
    /\ pending = <<>>
    /\ ppc = "none"
    /\ wstate = "none"
    /\ out = <<>>
    /\ cancelled = FALSE
    /\ closes = 0
    /\ writeFailed = FALSE
    /\ thrown = FALSE
    /\ processed = <<>>
    /\ midCut = FALSE
    /\ readerDone = FALSE
    /\ readFailed = FALSE
    /\ textFailed = FALSE
    /\ opc = "idle"
    /\ probes = <<>>
    /\ targetCount = 0
    /\ regions = Categorize(<<>>)
    /\ selectedProbes = <<>>
    /\ regionIdx = 1
    /\ selectedProbeIds = <<>>
    /\ testRequests = <<>>

Init ==
    /\ IdleState
    /\ resultsWithRegion = <<>>
    /\ stats = NoStats

pumpVars == <<ttft, ttftReported, firstTokenReceived, upstream, rest, buffer, held,
              pending, ppc, wstate, out, cancelled, closes, writeFailed, thrown,
              processed, midCut, readerDone, readFailed>>

(***************************************************************************)
(* fetch handler                                                           *)
(***************************************************************************)
\* lines 22-53: read the request, reject a missing prompt, issue the upstream call
Receive ==
    /\ hpc = "idle"
    /\ \E path \in Paths, m \in BOOLEAN, f \in BOOLEAN, t \in {StartClock} :
         /\ reqPath' = path
         /\ includeMetrics' = m
         /\ ttftOnly' = f
         /\ IF ~Decodes(PathTail(path))
            THEN \* URIError raised at line 23, outside the try
                 /\ hpc' = "threw"
                 /\ UNCHANGED <<resp, upstreamCalls, now, clockBack, startTime>>
            ELSE IF PromptMissing(DecodeURIComponent(PathTail(path)))
            THEN /\ resp' = [status |-> 400, body |-> "noPrompt"]
                 /\ hpc' = "returned"
                 /\ UNCHANGED <<upstreamCalls, now, clockBack, startTime>>
            ELSE /\ startTime' = t
                 /\ now' = t
                 /\ clockBack' = (clockBack \/ t < now)
                 /\ upstreamCalls' = upstreamCalls + 1
                 /\ hpc' = "awaitUpstream"
                 /\ UNCHANGED resp
    /\ UNCHANGED <<upstreamStatus, textFailed>>
    /\ UNCHANGED pumpVars
    /\ UNCHANGED probeVars

handlerFrame == <<reqPath, includeMetrics, ttftOnly, upstreamCalls, now,
                  clockBack, startTime>>

\* line 46 rejects (network error): caught at line 215
UpstreamUnreachable ==
    /\ hpc = "awaitUpstream"
    /\ resp' = [status |-> 500, body |-> "error"]
    /\ hpc' = "returned"
    /\ UNCHANGED <<handlerFrame, upstreamStatus, textFailed>>
    /\ UNCHANGED pumpVars
    /\ UNCHANGED probeVars

\* lines 55-61: a status that is not 2xx.  Reading the error text may reject,
\* and new Response(text, {status}) throws for a null body status: both are
\* caught at line 215
UpstreamRejects ==
    /\ hpc = "awaitUpstream"
    /\ \E s \in {x \in Statuses : ~Ok(x)}, textFails \in BOOLEAN :
         /\ upstreamStatus' = s
         /\ textFailed' = textFails
         /\ resp' = IF textFails \/ NullBodyStatus(s)
                    THEN [status |-> 500, body |-> "error"]
                    ELSE [status |-> s, body |-> "llmError"]
    /\ hpc' = "returned"
    /\ UNCHANGED handlerFrame
    /\ UNCHANGED pumpVars
    /\ UNCHANGED probeVars

\* lines 64-68: a 2xx answer without a body
UpstreamNoBody ==
    /\ hpc = "awaitUpstream"
    /\ \E s \in {x \in Statuses : Ok(x)} :
         upstreamStatus' = s
    /\ resp' = [status |-> 500, body |-> "noStream"]
    /\ hpc' = "returned"
    /\ UNCHANGED <<handlerFrame, textFailed>>
    /\ UNCHANGED pumpVars
    /\ UNCHANGED probeVars

\* lines 70-84 and 209-214: create the TransformStream, start the pump (it runs
\* up to its first reader.read()), return the streaming response
UpstreamStreams ==
    /\ hpc = "awaitUpstream"
    /\ \E s \in {x \in Statuses : Ok(x) /\ ~NullBodyStatus(x)}, body \in Bodies :
         /\ upstreamStatus' = s
         /\ upstream' = body
         /\ rest' = body
    /\ wstate' = "open"
    /\ held' = <<>>
    /\ buffer' = <<>>
    /\ firstTokenReceived' = FALSE
    /\ ppc' = "read"
    /\ resp' = [status |-> 200, body |-> "readable"]
    /\ hpc' = "returned"
    /\ UNCHANGED <<handlerFrame, textFailed>>
    /\ UNCHANGED <<ttft, ttftReported, pending, out, cancelled, closes, writeFailed, thrown,
                   processed, midCut, readerDone, readFailed>>
    /\ UNCHANGED probeVars


(***************************************************************************)
(* Background pump                                                         *)
(***************************************************************************)
\* What visiting one line leaves behind.
Outcome(tt, first, reported, o, w, c, cl, wf, exit) ==
    [ttft |-> tt, firstTokenReceived |-> first, ttftReported |-> reported,
     out |-> o, wstate |-> w, cancelled |-> c, closes |-> cl,
     writeFailed |-> wf, exit |-> exit]

Skipped ==
    Outcome(ttft, firstTokenReceived, ttftReported, out, wstate, cancelled,
            closes, writeFailed, "next")

FirstTokenEveryTime == TRUE

\* !firstTokenReceived (lines 109, 157)
IsFirstToken == ~firstTokenReceived

NeverTerminates == FALSE

\* ttftOnly (lines 114, 162)
TerminatesAtFirstToken == ttftOnly

NeverAnnotates == FALSE

\* includeMetrics && !ttftReported (lines 125, 171)
AnnotatesFirstToken == includeMetrics /\ ~ttftReported

AnnotatedAfterwards(ms, c) == <<Fragment(c), TtftNote(ms)>>

\* lines 126-133 and 172-179: the annotation is written, then the fragment
Annotated(ms, c) == <<TtftNote(ms), Fragment(c)>>

\* lines 107-134 (read loop, cancels = TRUE) and 155-180 (final flush, cancels =
\* FALSE): a payload that parsed, carrying content c.  t is what Date.now()
\* returns; breaks says the downstream side fails after this step's first write.
\* A rejected write or close is caught by the inner catch (lines 135, 181).
Deliver(c, t, breaks, cancels) ==
    LET ms == t - startTime
        caught == Outcome(ms, TRUE, ttftReported, out, wstate, cancelled,
                          closes, TRUE, "next")
    IN  IF c = <<>> THEN Skipped
        ELSE IF IsFirstToken /\ TerminatesAtFirstToken THEN
            IF wstate # "open" THEN caught
            ELSE IF breaks
            THEN Outcome(ms, TRUE, ttftReported, Append(out, Report(ms)),
                         "errored", cancelled, closes + 1, writeFailed, "next")
            ELSE Outcome(ms, TRUE, ttftReported, Append(out, Report(ms)),
                         "closed", cancelled \/ cancels, closes + 1,
                         writeFailed, "return")
        ELSE IF IsFirstToken /\ AnnotatesFirstToken THEN
            IF wstate # "open" THEN caught
            ELSE IF breaks
            THEN Outcome(ms, TRUE, TRUE, Append(out, Annotated(ms, c)[1]),
                         "errored", cancelled, closes, TRUE, "next")
            ELSE Outcome(ms, TRUE, TRUE, out \o Annotated(ms, c),
                         wstate, cancelled, closes, writeFailed, "next")
        ELSE
            Outcome(IF IsFirstToken THEN ms ELSE ttft, TRUE, ttftReported,
                    IF wstate = "open" THEN Append(out, Fragment(c)) ELSE out,
                    wstate, cancelled, closes,
                    writeFailed \/ wstate # "open", "next")

\* an event whose payload does not parse ends the pump
LoopLineMalformedEnds(line, t, breaks) ==
    IF ~StartsWithData(line) THEN Skipped
    ELSE IF Payload(line) = Done THEN Skipped
    ELSE IF ~Parses(Payload(line)) THEN [Skipped EXCEPT !.exit = "return"]
    ELSE Deliver(Content(Payload(line)), t, breaks, TRUE)

\* the sentinel ends the pump
LoopLineDoneEnds(line, t, breaks) ==
    IF ~StartsWithData(line) THEN Skipped
    ELSE IF Payload(line) = Done THEN [Skipped EXCEPT !.exit = "return"]
    ELSE IF ~Parses(Payload(line)) THEN Skipped
    ELSE Deliver(Content(Payload(line)), t, breaks, TRUE)

\* lines 97-138: one line of the read loop
LoopLine(line, t, breaks) ==
    IF ~StartsWithData(line) THEN Skipped
    ELSE IF Payload(line) = Done THEN Skipped
    ELSE IF ~Parses(Payload(line)) THEN Skipped
    ELSE Deliver(Content(Payload(line)), t, breaks, TRUE)

\* the residual line is forgotten
FlushedLineDropped(line, t, breaks) == Skipped

\* the final flush relays the fragment without the first-token block
FlushedLineNoFirstToken(line, t, breaks) ==
    IF ~(StartsWithData(line) /\ Payload(line) # Done) THEN Skipped
    ELSE IF ~Parses(Payload(line)) THEN Skipped
    ELSE IF Content(Payload(line)) = <<>> THEN Skipped
    ELSE Outcome(ttft, firstTokenReceived, ttftReported,
                 IF wstate = "open"
                 THEN Append(out, Fragment(Content(Payload(line)))) ELSE out,
                 wstate, cancelled, closes, writeFailed \/ wstate # "open",
                 "next")

\* lines 145-185: one line of the final flush
FlushedLine(line, t, breaks) ==
    IF ~(StartsWithData(line) /\ Payload(line) # Done) THEN Skipped
    ELSE IF ~Parses(Payload(line)) THEN Skipped
    ELSE Deliver(Content(Payload(line)), t, breaks, FALSE)

\* the line reaches ttft = Date.now() - startTime (lines 110, 158)
SamplesClock(line) ==
    /\ StartsWithData(line)
    /\ Payload(line) # Done
    /\ Parses(Payload(line))
    /\ Content(Payload(line)) # <<>>
    /\ IsFirstToken

Apply(r) ==
    /\ ttft' = r.ttft
    /\ firstTokenReceived' = r.firstTokenReceived
    /\ ttftReported' = r.ttftReported
    /\ out' = r.out
    /\ wstate' = r.wstate
    /\ cancelled' = r.cancelled
    /\ closes' = r.closes
    /\ writeFailed' = r.writeFailed

requestVars == <<hpc, reqPath, includeMetrics, ttftOnly, resp, upstreamCalls,
                 upstreamStatus, startTime, textFailed>>

\* lines 87-94: reader.read() delivers the next chunk (any length, also empty)
ReadChunk ==
    /\ ppc = "read"
    /\ \E k \in 0..Len(rest) :
         LET decoded == TextDecode(held \o SubSeq(rest, 1, k))
             lines == Split(buffer \o decoded.text)
         IN  /\ rest' = SubSeq(rest, k + 1, Len(rest))
             /\ held' = decoded.held
             /\ buffer' = Carry(lines)
             /\ pending' = Complete(lines)
             /\ ppc' = IF Len(lines) > 1 THEN "lines" ELSE "read"
             /\ midCut' = (midCut \/ (k > 0 /\ rest[k] # NL))
    /\ UNCHANGED <<requestVars, now, clockBack, ttft, ttftReported,
                   firstTokenReceived, upstream, wstate, out, cancelled, closes, writeFailed, thrown,
                   processed, readerDone, readFailed>>
    /\ UNCHANGED probeVars

\* lines 96-139: the for-loop visits the next complete line; after the return
\* at line 121 nothing is read any more
ProcessLine ==
    /\ ppc = "lines"
    /\ \E t \in (IF SamplesClock(Head(pending)) THEN 0..MaxClock ELSE {now}),
          breaks \in BOOLEAN :
         LET r == LoopLine(Head(pending), t, breaks)
         IN  /\ Apply(r)
             /\ now' = t
             /\ clockBack' = (clockBack \/ t < now)
             /\ pending' = IF r.exit = "return" THEN <<>> ELSE Tail(pending)
             /\ rest' = IF r.exit = "return" THEN <<>> ELSE rest
             /\ held' = IF r.exit = "return" THEN <<>> ELSE held
             /\ buffer' = IF r.exit = "return" THEN <<>> ELSE buffer
             /\ ppc' = IF r.exit = "return" THEN "finally"
                       ELSE IF Len(pending) > 1 THEN "lines" ELSE "read"
    /\ processed' = Append(processed, Head(pending))
    /\ UNCHANGED <<requestVars, upstream, thrown, midCut, readerDone, readFailed>>
    /\ UNCHANGED probeVars

\* the reader never reports done
ReadDoneNever == FALSE

\* lines 87-88 and 142-144: reader.read() reports done; what is left in the
\* buffer is split for the final flush
ReadDone ==
    /\ ppc = "read"
    /\ rest = <<>>
    /\ pending' = IF buffer # <<>> THEN Split(buffer) ELSE <<>>
    /\ held' = <<>>
    /\ buffer' = <<>>
    /\ ppc' = IF buffer # <<>> THEN "flush" ELSE "total"
    /\ readerDone' = TRUE
    /\ UNCHANGED <<requestVars, now, clockBack, ttft, ttftReported,
                   firstTokenReceived, upstream, rest, wstate, out, cancelled, closes, writeFailed,
                   thrown, processed, midCut, readFailed>>
    /\ UNCHANGED probeVars

\* line 87: reader.read() rejects (the upstream connection drops); the locals of
\* the try block are dead from here on
ReadFail ==
    /\ ppc = "read"
    /\ ppc' = "catch"
    /\ rest' = <<>>
    /\ held' = <<>>
    /\ buffer' = <<>>
    /\ pending' = <<>>
    /\ readFailed' = TRUE
    /\ UNCHANGED <<requestVars, now, clockBack, ttft, ttftReported,
                   firstTokenReceived, upstream, wstate, out, cancelled, closes, writeFailed, thrown,
                   processed, midCut, readerDone>>
    /\ UNCHANGED probeVars

\* lines 145-185: the final flush visits the residual line
FlushLine ==
    /\ ppc = "flush"
    /\ \E t \in (IF SamplesClock(Head(pending)) THEN 0..MaxClock ELSE {now}),
          breaks \in BOOLEAN :
         LET r == FlushedLine(Head(pending), t, breaks)
         IN  /\ Apply(r)
             /\ now' = t
             /\ clockBack' = (clockBack \/ t < now)
             /\ pending' = IF r.exit = "return" THEN <<>> ELSE Tail(pending)
             /\ ppc' = IF r.exit = "return" THEN "finally"
                       ELSE IF Len(pending) > 1 THEN "flush" ELSE "total"
    /\ processed' = Append(processed, Head(pending))
    /\ UNCHANGED <<requestVars, upstream, rest, buffer, held, thrown, midCut,
                   readerDone, readFailed>>
    /\ UNCHANGED probeVars

\* lines 188-194: the total-time annotation
WriteTotal ==
    /\ ppc = "total"
    /\ \E t \in (IF includeMetrics THEN 0..MaxClock ELSE {now}) :
         /\ now' = t
         /\ clockBack' = (clockBack \/ t < now)
         /\ out' = IF includeMetrics /\ wstate = "open"
                   THEN Append(out, TotalNote(t - startTime)) ELSE out
    /\ writeFailed' = (writeFailed \/ (includeMetrics /\ wstate # "open"))
    /\ ppc' = IF includeMetrics /\ wstate # "open" THEN "catch" ELSE "finally"
    /\ UNCHANGED <<requestVars, ttft, ttftReported, firstTokenReceived,
                   upstream, rest, buffer, held, pending, wstate, cancelled,
                   closes, thrown, processed, midCut, readerDone, readFailed>>
    /\ UNCHANGED probeVars

\* lines 195-201: the outer catch
Catch ==
    /\ ppc = "catch"
    /\ out' = IF includeMetrics /\ wstate = "open"
              THEN Append(out, ErrorNote) ELSE out
    /\ thrown' = (includeMetrics /\ wstate # "open")
    /\ writeFailed' = (writeFailed \/ (includeMetrics /\ wstate # "open"))
    /\ ppc' = "finally"
    /\ UNCHANGED <<requestVars, now, clockBack, ttft, ttftReported,
                   firstTokenReceived, upstream, rest, buffer, held, pending,
                   wstate, cancelled, closes, processed, midCut, readerDone,
                   readFailed>>
    /\ UNCHANGED probeVars

\* the pump ends without the finalizer
FinallyLeavesOpen ==
    /\ ppc = "finally"
    /\ ppc' = IF thrown THEN "rejected" ELSE "settled"
    /\ UNCHANGED <<requestVars, now, clockBack, ttft, ttftReported,
                   firstTokenReceived, upstream, rest, buffer, held, pending,
                   wstate, out, cancelled, closes, writeFailed, thrown,
                   processed, midCut, readerDone, readFailed>>
    /\ UNCHANGED probeVars

\* lines 202-204: writer.close(); it rejects on a writer that is closed or errored
Finally ==
    /\ ppc = "finally"
    /\ wstate' = IF wstate = "open" THEN "closed" ELSE wstate
    /\ thrown' = (thrown \/ wstate # "open")
    /\ closes' = closes + 1
    /\ ppc' = IF thrown \/ wstate # "open" THEN "rejected" ELSE "settled"
    /\ UNCHANGED <<requestVars, now, clockBack, ttft, ttftReported,
                   firstTokenReceived, upstream, rest, buffer, held, pending, out,
                   cancelled, writeFailed, processed, midCut, readerDone,
                   readFailed>>
    /\ UNCHANGED probeVars

\* the consumer of the response body goes away: the writable side errors
DownstreamAbort ==
    /\ wstate = "open"
    /\ ppc \in {"read", "lines", "flush", "total", "catch", "finally"}
    /\ wstate' = "errored"
    /\ UNCHANGED <<requestVars, now, clockBack, ttft, ttftReported,
                   firstTokenReceived, upstream, rest, buffer, held, pending, ppc,
                   out, cancelled, closes, writeFailed, thrown, processed, midCut,
                   readerDone, readFailed>>
    /\ UNCHANGED probeVars

Next ==
    \/ Receive
    \/ UpstreamUnreachable
    \/ UpstreamRejects
    \/ UpstreamNoBody
    \/ UpstreamStreams
    \/ ReadChunk
    \/ ProcessLine
    \/ ReadDone
    \/ ReadFail
    \/ FlushLine
    \/ WriteTotal
    \/ Catch
    \/ Finally
    \/ DownstreamAbort

Spec == Init /\ [][Next]_vars

\* A finite upstream body is delivered and its end reported (lines 87-88);
\* each awaited write and close settles when the consumer of the response
\* body keeps reading (lines 115-133, 163-179, 190, 198, 203).  A rejected
\* read and a consumer that goes away may happen but need not.
LiveBodies ==
    {b \in Bodies : Cardinality({i \in 1..Len(b) : b[i] = NL}) <= MaxLiveBreaks}

FairNext ==
    \/ Receive
    \/ UpstreamUnreachable
    \/ UpstreamRejects
    \/ UpstreamNoBody
    \/ UpstreamStreams /\ upstream' \in LiveBodies
    \/ ReadChunk
    \/ ProcessLine
    \/ ReadDone
    \/ ReadFail
    \/ FlushLine
    \/ WriteTotal
    \/ Catch
    \/ Finally
    \/ DownstreamAbort

FairSpec ==
    /\ Init
    /\ [][FairNext]_vars
    /\ WF_vars(ReadChunk)
    /\ WF_vars(ReadDone)
    /\ WF_vars(ProcessLine)
    /\ WF_vars(FlushLine)
    /\ WF_vars(WriteTotal)
    /\ WF_vars(Catch)
    /\ WF_vars(Finally)


(***************************************************************************)
(* Probe worker: selectProbes and the test requests                        *)
(***************************************************************************)
\* the state of the relay worker (src/ttft/main.ts)
relayVars == <<requestVars, now, clockBack, pumpVars>>

\* lines 253-256 and 100-154: getProbes returns the active probes and
\* selectProbes is called; the probes are put into their buckets
GetProbes ==
    /\ opc = "idle"
    /\ \E ps \in ProbeLists, tc \in TargetCounts :
         /\ probes' = ps
         /\ targetCount' = tc
         /\ regions' = Categorize(ps)
    /\ selectedProbes' = <<>>
    /\ regionIdx' = 1
    /\ opc' = "firstPass"
    /\ UNCHANGED <<selectedProbeIds, testRequests>>
    /\ UNCHANGED statsVars
    /\ UNCHANGED relayVars

\* lines 160-170: one entry of distribution
FirstPass ==
    /\ opc = "firstPass"
    /\ LET region == RegionOrder[regionIdx]
           available == regions[region]
           toSelect == Min(Distribution[region], Len(available))
       IN  \E sorted \in Sorted(available) :
             /\ regions' = [regions EXCEPT ![region] = sorted]
             /\ selectedProbes' = selectedProbes \o Slice(sorted, toSelect)
    /\ regionIdx' = regionIdx + 1
    /\ opc' = IF regionIdx = Len(RegionOrder) THEN "secondPass" ELSE "firstPass"
    /\ UNCHANGED <<probes, targetCount, selectedProbeIds, testRequests>>
    /\ UNCHANGED statsVars
    /\ UNCHANGED relayVars

\* lines 173-186: the second pass
SecondPass ==
    /\ opc = "secondPass"
    /\ IF Len(selectedProbes) < targetCount
       THEN LET remaining == targetCount - Len(selectedProbes)
                unselectedProbes == Unselected(AllProbeIds(probes), selectedProbes)
            IN  \E sorted \in Sorted(unselectedProbes) :
                  selectedProbes' = selectedProbes \o Slice(sorted, remaining)
       ELSE UNCHANGED selectedProbes
    /\ opc' = "return"
    /\ UNCHANGED <<probes, targetCount, regions, regionIdx, selectedProbeIds,
                   testRequests>>
    /\ UNCHANGED statsVars
    /\ UNCHANGED relayVars

\* lines 188 and 265: return selectedProbes.slice(0, targetCount)
Return ==
    /\ opc = "return"
    /\ selectedProbeIds' = Slice(selectedProbes, targetCount)
    /\ opc' = "selected"
    /\ UNCHANGED <<probes, targetCount, regions, selectedProbes, regionIdx,
                   testRequests>>
    /\ UNCHANGED statsVars
    /\ UNCHANGED relayVars

\* lines 272-274: one runSingleTest call per selected id
RunTests ==
    /\ opc = "selected"
    /\ testRequests' = selectedProbeIds
    /\ opc' = "tested"
    /\ UNCHANGED <<probes, targetCount, regions, selectedProbes, regionIdx,
                   selectedProbeIds>>
    /\ UNCHANGED statsVars
    /\ UNCHANGED relayVars

SelectNext ==
    \/ GetProbes
    \/ FirstPass
    \/ SecondPass
    \/ Return
    \/ RunTests

SelectSpec == Init /\ [][SelectNext]_vars


(***************************************************************************)
(* Probe worker: the statistics of the results                             *)
(***************************************************************************)
\* lines 276-320: the tests have settled and each result has its region
StatsInit ==
    /\ IdleState
    /\ resultsWithRegion \in ResultLists
    /\ stats = NoStats

\* lines 322-380: the statistics are computed
ComputeStats ==
    /\ stats = NoStats
    /\ stats' = Stats(resultsWithRegion)
    /\ UNCHANGED <<opc, probes, targetCount, regions, selectedProbes, regionIdx,
                   selectedProbeIds, testRequests, resultsWithRegion>>
    /\ UNCHANGED relayVars

StatsNext == ComputeStats

StatsSpec == StatsInit /\ [][StatsNext]_vars


(***************************************************************************)
(* Vocabulary of the properties                                            *)
(***************************************************************************)
\* no read of the upstream body and no downstream write or close has failed
NoFault == ~readFailed /\ wstate # "errored"

\* the pump task has ended
Finished == ppc \in {"settled", "rejected"}

\* the pump has left both for-loops
PastLoops == ppc \in {"total", "catch", "finally", "settled", "rejected"}

IsPrefix(a, b) == Len(a) <= Len(b) /\ SubSeq(b, 1, Len(a)) = a

IsFragmentLine(line) ==
    StartsWithData(line) /\ Parses(Payload(line)) /\ Content(Payload(line)) # <<>>

IsMalformedLine(line) ==
    StartsWithData(line) /\ Payload(line) # Done /\ ~Parses(Payload(line))

IsSentinelLine(line) == StartsWithData(line) /\ Payload(line) = Done

\* the lines visited when the bytes x arrive as one single chunk: the
\* complete lines of their text, then the residual line if it is not empty
OneChunkLines(x) ==
    LET ls == Split(TextDecode(x).text)
    IN  SubSeq(ls, 1, Len(ls) - 1) \o
        (IF ls[Len(ls)] # <<>> THEN <<ls[Len(ls)]>> ELSE <<>>)

\* the bytes of the content an event line of the body carries, read off the
\* bytes of the line: what lies between the braces of its payload
ContentBytes(line) ==
    LET p == Payload(line)
    IN  IF StartsWithData(line) /\ Len(p) >= 2 /\ p[1] = "{" /\ p[Len(p)] = "}"
        THEN SubSeq(p, 2, Len(p) - 1) ELSE <<>>

RECURSIVE FragmentsOfLines(_)
FragmentsOfLines(ls) ==
    IF ls = <<>> THEN <<>>
    ELSE (IF ContentBytes(Head(ls)) # <<>>
          THEN <<[kind |-> "fragment", ms |-> 0, bytes |-> ContentBytes(Head(ls))]>>
          ELSE <<>>)
         \o FragmentsOfLines(Tail(ls))

\* the non-empty fragments the events of the body x carry, in event order,
\* byte for byte
FragmentChunks(x) == FragmentsOfLines(Split(x))

HasFragment(x) == FragmentChunks(x) # <<>>

IsFragmentChunk(c) == c.kind = "fragment"

Bracketed(c) == c.kind \in {"ttft", "total", "error"}

LastChar(x) == IF x = <<>> THEN NL ELSE x[Len(x)]

(***************************************************************************)
(* C1  Line reassembly: however the upstream text is cut into chunks, the  *)
(* lines the pump visits are a prefix of the lines it visits when the text *)
(* arrives as one chunk, and once the reader has reported done and the     *)
(* residual line is flushed they are exactly those lines.                  *)
(***************************************************************************)
C1_LineReassembly ==
    /\ IsPrefix(processed, OneChunkLines(upstream))
    /\ (readerDone /\ ppc # "flush") => processed = OneChunkLines(upstream)

C1_Witness ==
    /\ ppc = "settled"
    /\ readerDone
    /\ midCut
    /\ Len(processed) = 3
    /\ LastChar(upstream) # NL

(***************************************************************************)
(* C2  FirstTokenOnly output: with ttft=true, on a stream that carries a   *)
(* non-empty fragment and with no failed read or write, nothing but the    *)
(* one report `TTFT: <n>ms` is ever written, and it is the whole output    *)
(* when the pump has ended.                                                *)
(***************************************************************************)
C2_FirstTokenOnlyOutput ==
    (ttftOnly /\ NoFault /\ HasFragment(upstream)) =>
        /\ out = <<>> \/ out = <<Report(ttft)>>
        /\ out # <<>> => firstTokenReceived
        /\ Finished => out = <<Report(ttft)>>

C2_Witness ==
    /\ ttftOnly
    /\ NoFault
    /\ Finished
    /\ Len(FragmentChunks(upstream)) >= 2
    /\ out = <<Report(ttft)>>

(***************************************************************************)
(* C3  Precedence of FirstTokenOnly: with ttft=true and metrics=true no    *)
(* bracketed annotation is ever written, on any stream.                    *)
(***************************************************************************)
C3_FirstTokenOnlyPrecedence ==
    (ttftOnly /\ includeMetrics /\ NoFault) =>
        \A i \in 1..Len(out) : ~Bracketed(out[i])

(***************************************************************************)
(* C4  Metrics bracketing: with metrics=true and ttft unset, when the      *)
(* stream carries a non-empty fragment, ends normally and no write fails,  *)
(* the output begins with `[TTFT: <n>ms]` and ends with `[Total Response   *)
(* Time: <m>ms]`, with m >= n >= 0 when the clock never goes backwards.    *)
(***************************************************************************)
MetricsRunEnded ==
    includeMetrics /\ ~ttftOnly /\ readerDone /\ ppc = "settled" /\ NoFault

BracketedByMetrics ==
    /\ Len(out) >= 2
    /\ out[1] = TtftNote(ttft)
    /\ out[Len(out)].kind = "total"
    /\ ~clockBack => (out[Len(out)].ms >= out[1].ms /\ out[1].ms >= 0)

C4_MetricsBracketing ==
    (MetricsRunEnded /\ HasFragment(upstream)) => BracketedByMetrics

C4_Witness ==
    /\ MetricsRunEnded
    /\ HasFragment(upstream)
    /\ ~clockBack
    /\ Len(out) >= 3
    /\ out[Len(out)].ms > out[1].ms

\* C4 as stated: on every stream that ends normally
C4_EveryStream == MetricsRunEnded => BracketedByMetrics

(***************************************************************************)
(* C5  Normal mode: with neither flag set and no failed read or write, the *)
(* output is always a prefix of the non-empty fragments of the stream in   *)
(* event order, and is exactly that sequence once the stream has ended.    *)
(***************************************************************************)
C5_NormalModeOutput ==
    (~includeMetrics /\ ~ttftOnly /\ NoFault) =>
        /\ IsPrefix(out, FragmentChunks(upstream))
        /\ (readerDone /\ ppc # "flush") => out = FragmentChunks(upstream)

C5_Witness ==
    /\ ~includeMetrics
    /\ ~ttftOnly
    /\ NoFault
    /\ ppc = "settled"
    /\ Len(out) = 2
    /\ out[1] # out[2]
    /\ LastChar(upstream) # NL


(***************************************************************************)
(* C6  Malformed-event resilience: visiting an event whose payload does    *)
(* not parse changes nothing and the loop goes on to the next line; in the *)
(* relaying modes, with no failed read or write, the pump runs until the   *)
(* reader reports done, ends without an error, and the fragments written   *)
(* are all the valid fragments of the stream in their original order.      *)
(***************************************************************************)
FragmentsWritten == SelectSeq(out, IsFragmentChunk)

RelaysToTheEnd ==
    /\ IsPrefix(FragmentsWritten, FragmentChunks(upstream))
    /\ (readerDone /\ ppc # "flush") => FragmentsWritten = FragmentChunks(upstream)
    /\ PastLoops => readerDone
    /\ ppc \notin {"catch", "rejected"}
    /\ ~thrown

HasMalformed(x) == \E i \in 1..Len(Split(x)) : IsMalformedLine(Split(x)[i])

VisitChangesNothing ==
    /\ UNCHANGED <<out, wstate, ttft, ttftReported, firstTokenReceived,
                   cancelled, thrown, now>>
    /\ ppc = "lines" => ppc' \in {"lines", "read"}
    /\ ppc = "flush" => ppc' \in {"flush", "total"}

C6_MalformedResilience ==
    /\ []((~ttftOnly /\ NoFault /\ HasMalformed(upstream)) => RelaysToTheEnd)
    /\ [][(processed' # processed /\ IsMalformedLine(Head(pending)))
             => VisitChangesNothing]_vars

C6_Witness ==
    /\ ~ttftOnly
    /\ NoFault
    /\ ppc = "settled"
    /\ Len(processed) = 3
    /\ IsFragmentLine(processed[1])
    /\ IsMalformedLine(processed[2])
    /\ IsFragmentLine(processed[3])
    /\ Len(FragmentsWritten) = 2
    /\ FragmentsWritten[1] # FragmentsWritten[2]

(***************************************************************************)
(* C7  The sentinel is no terminator: visiting a `[DONE]` event changes    *)
(* nothing and the loop goes on to the next line; in the relaying modes,   *)
(* with no failed read or write, the pump leaves its loops only when the   *)
(* reader has reported done, and every valid fragment of the stream, also  *)
(* those after a `[DONE]` line, is written.                                *)
(***************************************************************************)
HasSentinel(x) == \E i \in 1..Len(Split(x)) : IsSentinelLine(Split(x)[i])

C7_SentinelIsNoTerminator ==
    /\ []((~ttftOnly /\ NoFault /\ HasSentinel(upstream)) =>
            /\ PastLoops => readerDone
            /\ (readerDone /\ ppc # "flush") =>
                   FragmentsWritten = FragmentChunks(upstream))
    /\ [][(processed' # processed /\ IsSentinelLine(Head(pending)))
             => VisitChangesNothing]_vars

C7_Witness ==
    /\ ~ttftOnly
    /\ NoFault
    /\ ppc = "settled"
    /\ Len(processed) = 3
    /\ IsSentinelLine(processed[1])
    /\ IsFragmentLine(processed[2])
    /\ IsFragmentLine(processed[3])
    /\ LastChar(upstream) # NL
    /\ Len(FragmentsWritten) = 2

(***************************************************************************)
(* C8  Upstream failure short-circuit: when the upstream status is not 2xx *)
(* (and its error text could be read) the caller receives a response with  *)
(* exactly that status and a plain-text body, the pump is never started,   *)
(* no stream is created and nothing is written.                            *)
(***************************************************************************)
NonSuccess ==
    hpc = "returned" /\ upstreamStatus # 0
    /\ (upstreamStatus < 200 \/ upstreamStatus > 299)

NothingStreamed == ppc = "none" /\ wstate = "none" /\ out = <<>>

C8_UpstreamFailureShortCircuit ==
    (NonSuccess /\ ~textFailed) =>
        /\ NothingStreamed
        /\ resp = [status |-> upstreamStatus, body |-> "llmError"]

(***************************************************************************)
(* C9  A request with an empty path after the leading slash is answered    *)
(* with status 400 and a plain-text error, and no upstream call is issued  *)
(* for it.                                                                 *)
(***************************************************************************)
EmptyPrompt == hpc # "idle" /\ SubSeq(reqPath, 2, Len(reqPath)) = <<>>

C9_MissingPrompt ==
    EmptyPrompt =>
        /\ upstreamCalls = 0
        /\ hpc = "returned"
        /\ resp = [status |-> 400, body |-> "noPrompt"]
        /\ NothingStreamed

C9_Witness == EmptyPrompt /\ resp.status = 400 /\ upstreamCalls = 0

(***************************************************************************)
(* C10  TTFT recording: the first-token time and its flag change only in   *)
(* the step that visits a non-empty fragment while the flag is unset, the  *)
(* time becoming the clock reading minus the start time; that is the first *)
(* non-empty fragment in event order; and the time is >= 0 when the clock  *)
(* never goes backwards.                                                   *)
(***************************************************************************)
RecordsOnlyAtFirstFragment ==
    /\ (firstTokenReceived' # firstTokenReceived \/ ttft' # ttft) =>
          /\ ~firstTokenReceived
          /\ firstTokenReceived'
          /\ ppc \in {"lines", "flush"}
          /\ IsFragmentLine(Head(pending))
          /\ ttft' = now' - startTime
    /\ (processed' # processed /\ IsFragmentLine(Head(pending))) =>
          firstTokenReceived'

C10_TtftRecording ==
    /\ [][RecordsOnlyAtFirstFragment]_vars
    /\ [](firstTokenReceived <=>
            \E i \in 1..Len(processed) : IsFragmentLine(processed[i]))
    /\ []((firstTokenReceived /\ ~clockBack) => ttft >= 0)

C10_Witness ==
    /\ firstTokenReceived
    /\ ~clockBack
    /\ ttft > 0
    /\ Len(processed) = 3
    /\ ~IsFragmentLine(processed[1])
    /\ IsFragmentLine(processed[2])
    /\ IsFragmentLine(processed[3])

(***************************************************************************)
(* C11  Writer closed on every exit path: once the pump has started, every *)
(* way it ends (end of stream, first-token termination, a failed upstream  *)
(* read, a failed downstream write, also of the error annotation) has      *)
(* issued writer.close(), and the pump never ends with the downstream      *)
(* stream still open.                                                      *)
(***************************************************************************)
C11_WriterClosedOnEveryExit ==
    Finished => (closes >= 1 /\ wstate # "open")

\* the read failed and then the write of the error annotation failed
C11_Witness ==
    /\ ppc = "rejected"
    /\ includeMetrics
    /\ readFailed
    /\ writeFailed
    /\ closes = 1

(***************************************************************************)
(* C12  Annotation ordering with metrics=true and ttft unset: the TTFT     *)
(* annotation is written at most once, before every fragment and directly  *)
(* before the fragment that triggered it; the total-time annotation is     *)
(* written at most once and nothing is ever written after it.              *)
(***************************************************************************)
MetricsAnnotated == includeMetrics /\ ~ttftOnly

KindAt(kind) == {i \in 1..Len(out) : out[i].kind = kind}

C12_AnnotationOrdering ==
    MetricsAnnotated =>
        /\ Cardinality(KindAt("ttft")) <= 1
        /\ Cardinality(KindAt("total")) <= 1
        /\ \A i \in KindAt("ttft") :
              /\ \A j \in KindAt("fragment") : i < j
              /\ i < Len(out) => out[i + 1].kind = "fragment"
              /\ out[i].ms = ttft
        /\ \A i \in KindAt("total") : i = Len(out)

C12_Witness ==
    /\ MetricsAnnotated
    /\ ppc = "settled"
    /\ Len(out) = 4
    /\ out[1].kind = "ttft"
    /\ out[2].kind = "fragment"
    /\ out[3].kind = "fragment"
    /\ out[4].kind = "total"

(***************************************************************************)
(* C13  A downstream write failure is fatal: once a write of a fragment,   *)
(* of the TTFT annotation or of the TTFT report has failed, the pump reads *)
(* no further chunk and visits no further line; it is in its error path or *)
(* has ended.                                                              *)
(***************************************************************************)
C13_WriteFailureIsFatal ==
    writeFailed => ppc \in {"catch", "finally", "settled", "rejected"}

(***************************************************************************)
(* C14  Closed exactly once: writer.close() is never issued a second time, *)
(* it has been issued once when the pump has ended, and when no read and   *)
(* no downstream operation failed the pump task ends without raising an    *)
(* error, in every mode.                                                   *)
(***************************************************************************)
C14_ClosedExactlyOnce ==
    /\ closes <= 1
    /\ Finished => closes = 1
    /\ (Finished /\ NoFault) => ppc = "settled"

(***************************************************************************)
(* C15  Cancellation with ttft=true: whenever the TTFT report has been     *)
(* written (no read and no downstream operation having failed) a cancel    *)
(* has been requested on the upstream reader; a cancel is requested only   *)
(* with the report written and the downstream stream closed; and after the *)
(* cancel no chunk is read, no line visited and nothing written.           *)
(***************************************************************************)
ReportWritten == KindAt("report") # {}

C15_CancelAfterReport ==
    /\ []((ReportWritten /\ NoFault) => cancelled)
    /\ [](cancelled => (ReportWritten /\ wstate = "closed"))
    /\ [][cancelled => (rest' = rest /\ processed' = processed /\ out' = out)]_vars

(***************************************************************************)
(* C16  PendingBuffer invariant: while the read loop runs, the buffer      *)
(* holds no line break, it is the part after the last line break of the    *)
(* text decoded from all bytes received so far, and the lines yielded so   *)
(* far, each with its line break, followed by the buffer are exactly that  *)
(* text.                                                                   *)
(***************************************************************************)
Received == SubSeq(upstream, 1, Len(upstream) - Len(rest))

ReceivedText == TextDecode(Received).text

RECURSIVE Terminated(_)
Terminated(ls) ==
    IF ls = <<>> THEN <<>> ELSE Head(ls) \o <<NL>> \o Terminated(Tail(ls))

C16_PendingBuffer ==
    ppc \in {"read", "lines"} =>
        /\ \A i \in 1..Len(buffer) : buffer[i] # NL
        /\ buffer = Split(ReceivedText)[Len(Split(ReceivedText))]
        /\ Terminated(processed \o pending) \o buffer = ReceivedText

\* two chunks cut inside lines have been taken in, more is to come
C16_Witness ==
    /\ ppc = "read"
    /\ midCut
    /\ buffer # <<>>
    /\ Len(processed) = 2
    /\ rest # <<>>

(***************************************************************************)
(* C17  Final-line flush equivalence: a body whose last line lacks its     *)
(* line break yields the same lines as the body with the line break added, *)
(* and the final flush treats the residual line exactly as the read loop   *)
(* treats a terminated line: in every mode, for every clock value and      *)
(* every downstream fault, the same chunks written, the same TTFT          *)
(* recording and the same continuation (go on or return).                  *)
(***************************************************************************)
\* what a visit leaves downstream and in the TTFT record
Observable(r) ==
    <<r.out, r.ttft, r.firstTokenReceived, r.ttftReported, r.wstate, r.closes,
      r.writeFailed, r.exit>>

SameLines ==
    (upstream # <<>> /\ LastChar(upstream) # NL) =>
        OneChunkLines(upstream) = OneChunkLines(upstream \o <<NL>>)

SameVisit ==
    ppc = "flush" =>
        \A t \in 0..MaxClock, breaks \in BOOLEAN :
            Observable(FlushedLine(Head(pending), t, breaks)) =
                Observable(LoopLine(Head(pending), t, breaks))

FlushStepIsLoopStep ==
    (ppc = "flush" /\ processed' # processed) =>
        \E t \in 0..MaxClock, breaks \in BOOLEAN :
            LET r == LoopLine(Head(pending), t, breaks)
            IN  /\ <<out', ttft', firstTokenReceived', ttftReported', wstate',
                      closes', writeFailed'>> =
                   <<r.out, r.ttft, r.firstTokenReceived, r.ttftReported,
                     r.wstate, r.closes, r.writeFailed>>
                /\ (ppc' = "finally") = (r.exit = "return")
                /\ (ppc' = "total") = (r.exit = "next")

C17_FinalLineFlush ==
    /\ [](SameLines /\ SameVisit)
    /\ [][FlushStepIsLoopStep]_vars

\* the only line of the body came without its line break and was relayed
\* from the final flush with both annotations
C17_Witness ==
    /\ ppc = "settled"
    /\ MetricsAnnotated
    /\ LastChar(upstream) # NL
    /\ Len(processed) = 1
    /\ IsFragmentLine(processed[1])
    /\ Len(out) = 3
    /\ out[2].kind = "fragment"

(***************************************************************************)
(* C18  Pump termination: the handler returns the 200 response with the    *)
(* readable body in the step that starts the pump, before any chunk of the *)
(* upstream body has been read; and when the upstream body is delivered to *)
(* its end and the awaited writes settle, a started pump eventually ends   *)
(* with the downstream stream not open, in every mode.                     *)
(***************************************************************************)
PumpStarted == ppc # "none"

ReturnsBeforeReading ==
    (~PumpStarted /\ PumpStarted') =>
        /\ hpc' = "returned"
        /\ resp' = [status |-> 200, body |-> "readable"]
        /\ rest' = upstream'
        /\ processed' = <<>>
        /\ out' = <<>>

C18_PumpTerminates ==
    /\ [][ReturnsBeforeReading]_vars
    /\ PumpStarted ~> (Finished /\ wstate # "open")

\* a pump that relayed two fragments over several chunks has ended
C18_Witness ==
    /\ ppc = "settled"
    /\ resp = [status |-> 200, body |-> "readable"]
    /\ readerDone
    /\ ~ttftOnly
    /\ midCut
    /\ Cardinality(KindAt("fragment")) = 2

(***************************************************************************)
(* C19  Exceptions before the streamed response: no exception raised while *)
(* the request is handled escapes the fetch handler; whenever the handler  *)
(* is done it has returned a response, and a failed upstream call gives    *)
(* status 500.                                                             *)
(***************************************************************************)
C19_ExceptionsBecome500 ==
    /\ hpc # "threw"
    /\ hpc # "idle" /\ hpc # "awaitUpstream" => resp # NoResponse
    /\ (hpc = "returned" /\ upstreamCalls = 1 /\ upstreamStatus = 0) =>
           resp.status = 500

(***************************************************************************)
(* C20  Probe selection: for every list of active probes with distinct ids *)
(* and every targetCount, selectProbes returns min(targetCount, number of  *)
(* probes) ids, each the id of an input probe, none repeated; each step of *)
(* the first pass takes at most the quota of its region, from that         *)
(* region's bucket; and the handler calls runSingleTest once per returned  *)
(* id.                                                                     *)
(***************************************************************************)
NoRepeats(ids) ==
    \A i, j \in 1..Len(ids) : i # j => ids[i] # ids[j]

Selected == opc \in {"selected", "tested"}

ReturnsASample ==
    Selected =>
        /\ Len(selectedProbeIds) = Min(targetCount, Len(probes))
        /\ Members(selectedProbeIds) \subseteq Members(AllProbeIds(probes))
        /\ NoRepeats(selectedProbeIds)

OneTestEach == opc = "tested" => testRequests = selectedProbeIds

FirstPassTakesQuota ==
    opc = "firstPass" =>
        LET region == RegionOrder[regionIdx]
            taken == SubSeq(selectedProbes', Len(selectedProbes) + 1,
                            Len(selectedProbes'))
        IN  /\ Len(taken) = Min(Distribution[region], Len(Bucket(probes, region)))
            /\ Members(taken) \subseteq Members(Bucket(probes, region))
            /\ NoRepeats(taken)
            /\ SubSeq(selectedProbes', 1, Len(selectedProbes)) = selectedProbes

C20_ProbeSelection ==
    /\ [](ReturnsASample /\ OneTestEach)
    /\ [][FirstPassTakesQuota]_vars

\* three probes fall into the bucket of quota two: the first pass takes two,
\* the second pass the third, and three tests are requested
C20_Witness ==
    /\ opc = "tested"
    /\ targetCount = DefaultTargetCount
    /\ Len(probes) = 3
    /\ Len(regions["AF"]) = 3
    /\ Len(testRequests) = 3
    /\ regions["AF"] # Bucket(probes, "AF")

(***************************************************************************)
(* C21  Probe statistics: for every non-empty set of results with a        *)
(* response time, each percentile is the element at index floor(n x p) of  *)
(* the ascending-sorted sample (p = 0.5, 0.9, 0.95, 0.99), that index is   *)
(* inside the sample, min <= median <= p90 <= p95 <= p99 <= max, and       *)
(* count = successful + failed both overall and in every region bucket.    *)
(* The element at an index of the ascending-sorted sample is told by       *)
(* counting: fewer values than the index plus one lie below it, and more   *)
(* values than the index are at most it.                                   *)
(***************************************************************************)
Timed ==
    {i \in 1..Len(resultsWithRegion) :
        resultsWithRegion[i].response_time # Undefined}

Below(v) ==
    Cardinality({i \in Timed : resultsWithRegion[i].response_time < v})

AtMost(v) ==
    Cardinality({i \in Timed : resultsWithRegion[i].response_time <= v})

HasRank(index, v) == Below(v) <= index /\ index < AtMost(v)

IsFloor(index, n, percent) ==
    100 * index <= n * percent /\ n * percent < 100 * (index + 1)

PercentileIs(percent, v) ==
    \E index \in 0..(Cardinality(Timed) - 1) :
        IsFloor(index, Cardinality(Timed), percent) /\ HasRank(index, v)

CountsAddUp(s) == s.count = s.successful + s.failed

C21_ProbeStatistics ==
    (stats # NoStats /\ Timed # {}) =>
        /\ PercentileIs(50, stats.median)
        /\ PercentileIs(90, stats.p90)
        /\ PercentileIs(95, stats.p95)
        /\ PercentileIs(99, stats.p99)
        /\ stats.min <= stats.median
        /\ stats.median <= stats.p90
        /\ stats.p90 <= stats.p95
        /\ stats.p95 <= stats.p99
        /\ stats.p99 <= stats.max
        /\ CountsAddUp(stats)
        /\ \A region \in DOMAIN stats.by_region :
               CountsAddUp(stats.by_region[region])

\* a sample large enough for the six values to differ, with results that are
\* up and results that are not, in two regions
C21_Witness ==
    /\ stats # NoStats
    /\ stats.min < stats.median
    /\ stats.median < stats.p90
    /\ stats.p90 < stats.p95
    /\ stats.p95 < stats.p99
    /\ stats.p99 < stats.max
    /\ stats.successful > 0
    /\ stats.failed > 0
    /\ Cardinality(DOMAIN stats.by_region) = 2

====
